---------------------------- MODULE Spec2Model ----------------------------
(***************************************************************************)
(* Model of utils/ws-helper.ts (default-export KrakenClient): one client,  *)
(* its sockets, its registry of message handlers and the promises, timers  *)
(* and accumulators of its waitFor / waitForSilence calls; a second        *)
(* instance in the same process; and the steps of the test scenarios that  *)
(* depend on what the server sends.                                        *)
(*                                                                         *)
(* JavaScript runs every callback to completion, so each callback (a       *)
(* 'message' event with its whole forEach, a timer callback, a call of a   *)
(* method) is one atomic action.  Time is abstracted: a pending timer may  *)
(* fire at any point between two callbacks.                                *)
(***************************************************************************)
EXTENDS Integers, Sequences, FiniteSets, TLC

\* ------------------------------------------------------------------ bounds
MaxCalls == 2       \* waitFor / waitForSilence calls issued on the client
MaxFrames == 2      \* inbound frames received over all sockets
MaxCount == 2       \* largest count argument passed to waitFor
MaxConnects == 2    \* connect() calls on the client

\* ------------------------------------------------- inbound frames, messages
\* Raw frames as the server sends them (data.toString()).
TickerFrame == "{\"channel\":\"ticker\",\"type\":\"update\"}"
OhlcFrame == "{\"channel\":\"ohlc\",\"type\":\"update\"}"
StatusFrame == "{\"channel\":\"status\",\"type\":\"update\"}"
HeartbeatFrame == "{\"channel\":\"heartbeat\"}"

Frames == {TickerFrame, OhlcFrame, StatusFrame, HeartbeatFrame}

\* Ticker updates of the two markets of the multi-market scenario.
TickerBTCFrame ==
    "{\"channel\":\"ticker\",\"type\":\"update\",\"data\":[{\"symbol\":\"BTC/USD\"}]}"
TickerETHFrame ==
    "{\"channel\":\"ticker\",\"type\":\"update\",\"data\":[{\"symbol\":\"ETH/USD\"}]}"

\* The server's acknowledgment of an unsubscribe request.
UnsubscribeAckFrame == "{\"method\":\"unsubscribe\",\"success\":true}"

\* The two answers a server gives to a subscribe request with req_id 50:
\* accepted, or refused as a duplicate.
SubscribeAckFrame ==
    "{\"method\":\"subscribe\",\"req_id\":50,\"success\":true}"
AlreadySubscribedFrame ==
    "{\"error\":\"Already subscribed\",\"method\":\"subscribe\",\"req_id\":50,\"success\":false}"

\* JSON.parse(data.toString()): the decoded message; an absent key reads as
\* undefined.
JSONparse(data) ==
    CASE data = TickerFrame -> [channel |-> "ticker", type |-> "update"]
      [] data = OhlcFrame -> [channel |-> "ohlc", type |-> "update"]
      [] data = StatusFrame -> [channel |-> "status", type |-> "update"]
      [] data = HeartbeatFrame -> [channel |-> "heartbeat", type |-> "undefined"]
      [] data = UnsubscribeAckFrame ->
            [channel |-> "undefined", type |-> "undefined",
             method |-> "unsubscribe", success |-> TRUE]
      [] data = SubscribeAckFrame ->
            [channel |-> "undefined", type |-> "undefined",
             method |-> "subscribe", req_id |-> 50, success |-> TRUE]
      [] data = AlreadySubscribedFrame ->
            [channel |-> "undefined", type |-> "undefined",
             method |-> "subscribe", req_id |-> 50, success |-> FALSE,
             error |-> <<"A", "l", "r", "e", "a", "d", "y", " ",
                         "s", "u", "b", "s", "c", "r", "i", "b", "e", "d">>]
      [] data = TickerBTCFrame ->
            [channel |-> "ticker", type |-> "update",
             data |-> <<[symbol |-> "BTC/USD"]>>]
      [] data = TickerETHFrame ->
            [channel |-> "ticker", type |-> "update",
             data |-> <<[symbol |-> "ETH/USD"]>>]

Messages == {JSONparse(f) : f \in Frames}

\* Conditions the test scenarios pass to the wait primitives:
\*   isHeartbeat  m => m.channel === 'heartbeat'
\*   notIgnored   msg => msg.channel && !ignoredChannels.includes(msg.channel)
\* and, in the unsubscribe scenario,
\*   isTicker          m => m.channel === 'ticker'
\*   isUnsubscribeAck  m => m.method === 'unsubscribe' && m.success
\* and, in the duplicate-subscription scenario,
\*   isReq50Success    m => m.req_id === 50 && m.success
\*   isReq50           m => m.req_id === 50
Conditions == {"isHeartbeat", "notIgnored"}

ignoredChannels == {"heartbeat", "status"}

Condition(condition, msg) ==
    CASE condition = "isHeartbeat" -> msg.channel = "heartbeat"
      [] condition = "notIgnored" ->
            msg.channel # "undefined" /\ msg.channel \notin ignoredChannels
      [] condition = "typeIsUpdate" -> msg.type = "update"
      [] condition = "isTicker" -> msg.channel = "ticker"
      [] condition = "isUnsubscribeAck" ->
            /\ "method" \in DOMAIN msg /\ msg.method = "unsubscribe"
            /\ "success" \in DOMAIN msg /\ msg.success = TRUE
      [] condition = "isReq50Success" ->
            /\ "req_id" \in DOMAIN msg /\ msg.req_id = 50
            /\ "success" \in DOMAIN msg /\ msg.success = TRUE
      [] condition = "isReq50" -> "req_id" \in DOMAIN msg /\ msg.req_id = 50
      [] condition = "waitsForTicker" -> TRUE

\* A condition is any function the caller writes; it may dereference a field
\* the message lacks:
\*   typeIsUpdate  m => m.type.toLowerCase() === 'update'
\* throws a TypeError on a message without a type.
ThrowingConditions == {"typeIsUpdate"}

\* A condition may also call back into the client while it is evaluated:
\*   waitsForTicker  m => { void client.waitFor(isTicker, 1); return true; }
\* issues a wait of its own, synchronously, each time it is evaluated.
ReentrantConditions == {"waitsForTicker"}

\* Evaluating condition(msg) throws.
Throws(condition, msg) ==
    condition = "typeIsUpdate" /\ msg.type = "undefined"

\* m.data?.[0]?.symbol: undefined when the message has no data or data is
\* empty.
FirstSymbol(msg) ==
    IF "data" \in DOMAIN msg
    THEN IF Len(msg.data) >= 1 THEN msg.data[1].symbol ELSE "undefined"
    ELSE "undefined"

\* The markets the multi-market scenario subscribes to.
symbols == <<"BTC/USD", "ETH/USD">>

\* The condition of the multi-market scenario keeps a Set of its own:
\*   everySymbol  m => { if (m.channel === 'ticker' && m.type === 'update'
\*                           && symbols.includes(m.data?.[0]?.symbol))
\*                         receivedSymbols.add(m.data[0].symbol);
\*                       return receivedSymbols.size === symbols.length; }
\* receivedSymbolsAdd is the Set after the condition ran on msg.
receivedSymbolsAdd_replaces(condition, receivedSymbols, msg) ==
    IF /\ condition = "everySymbol"
       /\ msg.channel = "ticker" /\ msg.type = "update"
       /\ \E i \in 1..Len(symbols) : symbols[i] = FirstSymbol(msg)
    THEN {FirstSymbol(msg)}
    ELSE receivedSymbols

receivedSymbolsAdd(condition, receivedSymbols, msg) ==
    IF /\ condition = "everySymbol"
       /\ msg.channel = "ticker" /\ msg.type = "update"
       /\ \E i \in 1..Len(symbols) : symbols[i] = FirstSymbol(msg)
    THEN receivedSymbols \cup {FirstSymbol(msg)}
    ELSE receivedSymbols

\* What condition(msg) returns to the handler of call c, the Set of the
\* condition being already updated.
Holds(c, msg) ==
    IF c.condition = "everySymbol"
    THEN Cardinality(c.receivedSymbols) = Len(symbols)
    ELSE Condition(c.condition, msg)

\* The count arguments tried: the default and the largest.
Counts == {1, MaxCount}

\* -------------------------------------------------------------------- state
VARIABLES
    sockets,          \* readyState of every WebSocket created by connect()
    ws,               \* this.ws: index into sockets, 0 while unassigned
    connects,         \* per connect() call: its timer and its promise
    messageHandlers,  \* this.messageHandlers: a Set, kept in insertion order
    calls,            \* per wait call: its closure (results, timer, promise;
                      \* timersSet counts the setTimeout calls made for it)
                      \* and, as history, the messages dispatched while its
                      \* handler was registered (seen) and the number of
                      \* times its condition was evaluated (evals)
    received,         \* number of inbound frames received so far
    peer,             \* a second KrakenClient instance in the same process,
                      \* connected: its messageHandlers, and the number of
                      \* frames received on its connection; calls holds the
                      \* closures of the wait calls of both instances
    legacy            \* a connected client of the legacy class (named export):
                      \* the 'message' listeners attached to its socket, the
                      \* closures of its waitFor calls, the frames received

vars ==
    <<sockets, ws, connects, messageHandlers, calls, received, peer, legacy>>

NoError == [message |-> "", carries |-> <<>>]

\* new Error(text): an Error carries its message text and nothing else.
Error(text) == [message |-> text, carries |-> <<>>]

\* ------------------------------------------------------------ Set, Promise
\* Variant of Set.prototype.delete that empties the set (clear for delete).
SetDelete_clears(set, h) == <<>>

\* Variant of Set.prototype.delete written as an array splice at indexOf:
\* for an absent element indexOf is -1 and the last element is removed.
SetDelete_splice(set, h) ==
    IF \E i \in 1..Len(set) : set[i] = h
    THEN SelectSeq(set, LAMBDA x : x # h)
    ELSE SubSeq(set, 1, Len(set) - 1)

\* Set.prototype.delete: removes the element if present, else does nothing.
SetDelete(set, h) == SelectSeq(set, LAMBDA x : x # h)

\* Set.prototype.add: appends unless already present.
SetAdd(set, h) ==
    IF \E i \in 1..Len(set) : set[i] = h THEN set ELSE Append(set, h)

\* The state the callbacks of the wait primitives read and write.
WaitState(cs, hs) == [calls |-> cs, messageHandlers |-> hs]

\* resolve(value) of the promise of call id; the promise keeps only its first
\* settlement, the call itself is still counted.
resolve(st, id) ==
    LET c == st.calls[id] IN
    [st EXCEPT !.calls[id] =
        IF c.promise = "pending"
        THEN [c EXCEPT !.resolveCalls = @ + 1, !.promise = "fulfilled"]
        ELSE [c EXCEPT !.resolveCalls = @ + 1]]

\* reject(err) of the promise of call id.
reject(st, id, err) ==
    LET c == st.calls[id] IN
    [st EXCEPT !.calls[id] =
        IF c.promise = "pending"
        THEN [c EXCEPT !.rejectCalls = @ + 1, !.promise = "rejected",
                       !.error = err]
        ELSE [c EXCEPT !.rejectCalls = @ + 1]]

\* ------------------------------------------------------ the wait primitives
\* Variant of cleanup that forgets this.messageHandlers.delete(handler).
cleanup_keepsHandler(st, id) ==
    [calls |-> [st.calls EXCEPT ![id].timer =
                    IF @ = "pending" THEN "cleared" ELSE @],
     messageHandlers |-> st.messageHandlers]

\* Variant of cleanup that forgets clearTimeout(timer).
cleanup_keepsTimer(st, id) ==
    [calls |-> st.calls,
     messageHandlers |-> SetDelete(st.messageHandlers, id)]

\* cleanup(): clearTimeout(timer); this.messageHandlers.delete(handler).
cleanup(st, id) ==
    [calls |-> [st.calls EXCEPT ![id].timer =
                    IF @ = "pending" THEN "cleared" ELSE @],
     messageHandlers |-> SetDelete(st.messageHandlers, id)]

\* Variant of TimeoutError that reports the target in place of the count
\* received.
TimeoutError_reportsTarget(results, count) ==
    Error("Timeout: Only received " \o ToString(count) \o "/"
            \o ToString(count) \o " messages")

\* `Timeout: Only received ${results.length}/${count} messages`
TimeoutError(results, count) ==
    Error("Timeout: Only received " \o ToString(Len(results)) \o "/"
            \o ToString(count) \o " messages")

\* Variant of SilenceError that attaches the message that matched.
SilenceError_carries(msg) ==
    [message |-> "Message received during silence window", carries |-> <<msg>>]

\* new Error('Message received during silence window')
SilenceError(msg) == Error("Message received during silence window")

\* Variant of the waitFor handler that compares with >= (enough matches,
\* not exactly count of them).
waitForHandler_atLeast(st, id, msg) ==
    LET c == st.calls[id] IN
    IF Holds(c, msg)
    THEN LET pushed == [st EXCEPT !.calls[id].results = Append(@, msg)] IN
         IF Len(pushed.calls[id].results) >= c.count
         THEN resolve(cleanup(pushed, id), id)
         ELSE pushed
    ELSE st

\* Variant of the waitFor handler that compares with > (it resolves one
\* match late).
waitForHandler_offByOne(st, id, msg) ==
    LET c == st.calls[id] IN
    IF Holds(c, msg)
    THEN LET pushed == [st EXCEPT !.calls[id].results = Append(@, msg)] IN
         IF Len(pushed.calls[id].results) > c.count
         THEN resolve(cleanup(pushed, id), id)
         ELSE pushed
    ELSE st

\* Variant of the waitFor handler that pushes the message before it tests
\* the condition.
waitForHandler_pushFirst(st, id, msg) ==
    LET c == st.calls[id]
        pushed == [st EXCEPT !.calls[id].results = Append(@, msg)]
    IN IF Holds(c, msg)
       THEN IF Len(pushed.calls[id].results) = c.count
            THEN resolve(cleanup(pushed, id), id)
            ELSE pushed
       ELSE pushed

\* Variant of the waitFor handler that does not consult its condition.
waitForHandler_anyMessage(st, id, msg) ==
    LET c == st.calls[id]
        pushed == [st EXCEPT !.calls[id].results = Append(@, msg)]
    IN IF Len(pushed.calls[id].results) = c.count
       THEN resolve(cleanup(pushed, id), id)
       ELSE pushed

\* Variant of the waitFor handler that resolves without cleanup().
waitForHandler_noCleanup(st, id, msg) ==
    LET c == st.calls[id] IN
    IF Condition(c.condition, msg)
    THEN LET pushed == [st EXCEPT !.calls[id].results = Append(@, msg)] IN
         IF Len(pushed.calls[id].results) = c.count
         THEN resolve(pushed, id)
         ELSE pushed
    ELSE st

\* Variant of the waitFor handler that puts a match in front of the earlier
\* ones (unshift for push).
waitForHandler_unshift(st, id, msg) ==
    LET c == st.calls[id] IN
    IF Condition(c.condition, msg)
    THEN LET pushed == [st EXCEPT !.calls[id].results = <<msg>> \o @] IN
         IF Len(pushed.calls[id].results) = c.count
         THEN resolve(cleanup(pushed, id), id)
         ELSE pushed
    ELSE st

\* The handler closure of waitFor.
waitForHandler(st, id, msg) ==
    LET c == st.calls[id] IN
    IF Holds(c, msg)
    THEN LET pushed == [st EXCEPT !.calls[id].results = Append(@, msg)] IN
         IF Len(pushed.calls[id].results) = c.count
         THEN resolve(cleanup(pushed, id), id)
         ELSE pushed
    ELSE st

\* Variant of the waitForSilence handler that rejects without cleanup().
waitForSilenceHandler_noCleanup(st, id, msg) ==
    LET c == st.calls[id] IN
    IF Condition(c.condition, msg)
    THEN reject(st, id, SilenceError(msg))
    ELSE st

\* Variant of the waitForSilence handler that starts its window again on a
\* message it does not fail on (clearTimeout, then a new setTimeout).
waitForSilenceHandler_restarts(st, id, msg) ==
    LET c == st.calls[id] IN
    IF Holds(c, msg)
    THEN reject(cleanup(st, id), id, SilenceError(msg))
    ELSE [st EXCEPT !.calls[id].timersSet = @ + 1]

\* The handler closure of waitForSilence.
waitForSilenceHandler(st, id, msg) ==
    LET c == st.calls[id] IN
    IF Holds(c, msg)
    THEN reject(cleanup(st, id), id, SilenceError(msg))
    ELSE st

NewCall(kind, condition, count) ==
    [kind |-> kind, condition |-> condition, count |-> count,
     results |-> <<>>, timer |-> "pending", timersSet |-> 1,
     resolveCalls |-> 0, rejectCalls |-> 0,
     promise |-> "pending", error |-> NoError,
     receivedSymbols |-> {},
     seen |-> <<>>, evals |-> 0]

\* What the evaluation of a condition does to the client besides returning:
\* the waitFor a re-entrant condition issues creates its closure and timer
\* and runs this.messageHandlers.add(handler) before the condition returns.
issue(st, condition) ==
    IF condition \in ReentrantConditions
    THEN [calls |-> Append(st.calls, NewCall("waitFor", "isTicker", 1)),
          messageHandlers |->
                SetAdd(st.messageHandlers, Len(st.calls) + 1)]
    ELSE st

\* A call of the handler closure of call id: it evaluates condition(msg)
\* first, and does nothing more if that throws.
handler(st, id, msg) ==
    LET c == st.calls[id]
        evaluated == issue([st EXCEPT
            !.calls[id].evals = @ + 1,
            !.calls[id].receivedSymbols =
                receivedSymbolsAdd(c.condition, @, msg)], c.condition)
    IN
    IF Throws(st.calls[id].condition, msg)
    THEN evaluated
    ELSE IF st.calls[id].kind = "waitFor"
         THEN waitForHandler(evaluated, id, msg)
         ELSE waitForSilenceHandler(evaluated, id, msg)

\* Variant of the delivery loop written as a loop over array indexes
\* (for (i = 0; i < handlers.length; i++)): after a handler removed itself
\* the entries behind it move up and the next one is passed over.
RECURSIVE forEach_indexed(_, _, _)
forEach_indexed(st, i, msg) ==
    IF i > Len(st.messageHandlers)
    THEN st
    ELSE LET id == st.messageHandlers[i]
             after == handler(st, id, msg)
         IN IF Throws(st.calls[id].condition, msg)
            THEN after
            ELSE forEach_indexed(after, i + 1, msg)

\* Variant of the delivery loop that stops at the first handler whose
\* condition the message satisfies (the message is consumed).
RECURSIVE forEach_consumes(_, _, _)
forEach_consumes(st, i, msg) ==
    IF i > Len(st.messageHandlers)
    THEN st
    ELSE LET id == st.messageHandlers[i]
             after == handler(st, id, msg)
             stays == /\ i <= Len(after.messageHandlers)
                      /\ after.messageHandlers[i] = id
         IN IF Condition(st.calls[id].condition, msg)
            THEN after
            ELSE forEach_consumes(after, IF stays THEN i + 1 ELSE i, msg)

\* this.messageHandlers.forEach(handler => handler(msg)): Set iteration is
\* live and in insertion order; an entry deleted by the callback does not
\* shift the entries after it out of the iteration.
\* Nothing catches what a handler throws: an exception thrown by a condition
\* leaves the handler, the forEach and the 'message' listener at once, and the
\* entries after it are not visited.
RECURSIVE forEach(_, _, _)
forEach(st, i, msg) ==
    IF i > Len(st.messageHandlers)
    THEN st
    ELSE LET id == st.messageHandlers[i]
             after == handler(st, id, msg)
             stays == /\ i <= Len(after.messageHandlers)
                      /\ after.messageHandlers[i] = id
         IN IF Throws(st.calls[id].condition, msg)
            THEN after
            ELSE forEach(after, IF stays THEN i + 1 ELSE i, msg)

\* Variant of the waitFor timer callback that rejects and leaves the handler
\* in the registry.
waitForTimer_noCleanup(st, id) ==
    LET c == st.calls[id]
        fired == [st EXCEPT !.calls[id].timer = "fired"]
    IN reject(fired, id, TimeoutError(c.results, c.count))

\* Variant of the waitFor timer callback that cleans up and forgets to
\* reject.
waitForTimer_noReject(st, id) ==
    LET fired == [st EXCEPT !.calls[id].timer = "fired"]
    IN cleanup(fired, id)

\* The callback of the timer of waitFor.
waitForTimer(st, id) ==
    LET c == st.calls[id]
        fired == [st EXCEPT !.calls[id].timer = "fired"]
    IN reject(cleanup(fired, id), id, TimeoutError(c.results, c.count))

\* Variant of the waitForSilence timer callback that treats the end of the
\* window as a failure.
waitForSilenceTimer_rejects(st, id) ==
    LET fired == [st EXCEPT !.calls[id].timer = "fired"]
    IN reject(cleanup(fired, id), id, Error("Timeout"))

\* The callback of the timer of waitForSilence.
waitForSilenceTimer(st, id) ==
    LET fired == [st EXCEPT !.calls[id].timer = "fired"]
    IN resolve(cleanup(fired, id), id)

\* History: every call whose handler is in the registry when the dispatch of
\* msg starts has msg added to the messages dispatched while it was registered.
Dispatched(cs, hs, msg) ==
    LET dispatched == [id \in 1..Len(cs) |->
            IF \E i \in 1..Len(hs) : hs[i] = id
            THEN [cs[id] EXCEPT !.seen = Append(@, msg)]
            ELSE cs[id]]
    IN SubSeq(dispatched, 1, Len(cs))

\* ------------------------------------------------------------------ actions
\* A constructed client: private messageHandlers = new Set().
NewClient == [messageHandlers |-> <<>>, received |-> 0]

\* A client of the legacy class after test.beforeEach: its socket is open and
\* has no 'message' listener yet (connect attaches 'open' and 'error' only).
NewLegacyClient == [listeners |-> <<>>, waits |-> <<>>, received |-> 0]

Init ==
    /\ sockets = <<>>
    /\ ws = 0
    /\ connects = <<>>
    /\ messageHandlers = <<>>
    /\ calls = <<>>
    /\ received = 0
    /\ peer = NewClient
    /\ legacy = NewLegacyClient

\* connect(timeout): a new socket, a timer, the promise of the call.
connect ==
    /\ Len(sockets) < MaxConnects
    /\ sockets' = Append(sockets, "CONNECTING")
    /\ ws' = Len(sockets) + 1
    /\ connects' = Append(connects,
            [timer |-> "pending", promise |-> "pending", error |-> NoError])
    /\ UNCHANGED <<messageHandlers, calls, received, peer, legacy>>

\* ws.on('open'): clearTimeout(timer); resolve().
OnOpen(s) ==
    /\ sockets[s] = "CONNECTING"
    /\ sockets' = [sockets EXCEPT ![s] = "OPEN"]
    /\ connects' = [connects EXCEPT
            ![s].timer = IF @ = "pending" THEN "cleared" ELSE @,
            ![s].promise = IF @ = "pending" THEN "fulfilled" ELSE @]
    /\ UNCHANGED <<ws, messageHandlers, calls, received, peer, legacy>>

\* ws.on('error'): reject(err); the timer is left as it is.  The socket that
\* emitted the error closes.
OnError(s) ==
    /\ sockets[s] \in {"CONNECTING", "OPEN"}
    /\ sockets' = [sockets EXCEPT ![s] = "CLOSED"]
    /\ connects' = [connects EXCEPT
            ![s].promise = IF @ = "pending" THEN "rejected" ELSE @,
            ![s].error = IF connects[s].promise = "pending"
                         THEN Error("socket error") ELSE @]
    /\ UNCHANGED <<ws, messageHandlers, calls, received, peer, legacy>>

\* The timer callback of connect: this.ws.terminate(); reject(...).
\* this.ws is read when the timer fires.
ConnectTimer(s) ==
    /\ connects[s].timer = "pending"
    /\ sockets' = [sockets EXCEPT ![ws] = "CLOSED"]
    /\ connects' = [connects EXCEPT
            ![s].timer = "fired",
            ![s].promise = IF @ = "pending" THEN "rejected" ELSE @,
            ![s].error = IF connects[s].promise = "pending"
                         THEN Error("Connection Timeout") ELSE @]
    /\ UNCHANGED <<ws, messageHandlers, calls, received, peer, legacy>>

\* ws.on('message'): decode the frame, hand it to every registered handler.
OnMessage(s, data) ==
    /\ sockets[s] \in {"OPEN", "CLOSING"}
    /\ received < MaxFrames
    /\ received' = received + 1
    /\ LET msg == JSONparse(data)
           st == forEach(WaitState(Dispatched(calls, messageHandlers, msg),
                                   messageHandlers), 1, msg)
       IN /\ calls' = st.calls
          /\ messageHandlers' = st.messageHandlers
    /\ UNCHANGED <<sockets, ws, connects, peer, legacy>>

\* Variant of waitFor on a client that keeps the last message it received
\* and hands it to a handler as soon as the handler is registered.
waitFor_replays(condition, count) ==
    /\ Len(calls) < MaxCalls
    /\ LET id == Len(calls) + 1
           st == WaitState(Append(calls, NewCall("waitFor", condition, count)),
                           SetAdd(messageHandlers, id))
           kept == IF Len(calls) > 0 THEN calls[Len(calls)].seen ELSE <<>>
           replayed == IF kept = <<>>
                       THEN st
                       ELSE handler(st, id, kept[Len(kept)])
       IN /\ calls' = replayed.calls
          /\ messageHandlers' = replayed.messageHandlers
    /\ UNCHANGED <<sockets, ws, connects, received, peer, legacy>>

\* waitFor(condition, count, timeout).
waitFor(condition, count) ==
    /\ Len(calls) < MaxCalls
    /\ calls' = Append(calls, NewCall("waitFor", condition, count))
    /\ messageHandlers' = SetAdd(messageHandlers, Len(calls) + 1)
    /\ UNCHANGED <<sockets, ws, connects, received, peer, legacy>>

\* waitForSilence(condition, timeout).
waitForSilence(condition) ==
    /\ Len(calls) < MaxCalls
    /\ calls' = Append(calls, NewCall("waitForSilence", condition, 0))
    /\ messageHandlers' = SetAdd(messageHandlers, Len(calls) + 1)
    /\ UNCHANGED <<sockets, ws, connects, received, peer, legacy>>

\* The timer of wait call id fires.
WaitTimer(id) ==
    /\ calls[id].timer = "pending"
    /\ LET st == IF calls[id].kind = "waitFor"
                 THEN waitForTimer(WaitState(calls, messageHandlers), id)
                 ELSE waitForSilenceTimer(WaitState(calls, messageHandlers),
                                          id)
       IN /\ calls' = st.calls
          /\ messageHandlers' = st.messageHandlers
    /\ UNCHANGED <<sockets, ws, connects, received, peer, legacy>>

\* close(): closes the current socket if it is open, else does nothing.
close ==
    /\ ws # 0
    /\ sockets' = IF sockets[ws] = "OPEN"
                  THEN [sockets EXCEPT ![ws] = "CLOSING"]
                  ELSE sockets
    /\ UNCHANGED <<ws, connects, messageHandlers, calls, received, peer, legacy>>

\* The closing handshake completes, or the server drops the connection.
OnClose(s) ==
    /\ sockets[s] \in {"OPEN", "CLOSING"}
    /\ sockets' = [sockets EXCEPT ![s] = "CLOSED"]
    /\ UNCHANGED <<ws, connects, messageHandlers, calls, received, peer, legacy>>

\* ------------------------------------------------------ the legacy client
\* Timeouts the legacy suite passes to waitFor: the default and the silence
\* window of its unsubscribe tests.
DefaultWaitTimeout == 20000
UNSUB_SILENCE_MS == 5000

LegacyTimeouts == {DefaultWaitTimeout, UNSUB_SILENCE_MS}

\* `Wait Timeout: Message not received within ${timeout}ms`
WaitTimeoutError(timeout) ==
    Error("Wait Timeout: Message not received within "
            \o ToString(timeout) \o "ms")

LegacyNewWait(predicate, timeout) ==
    [predicate |-> predicate, timeout |-> timeout, timer |-> "pending",
     promise |-> "pending", value |-> <<>>, error |-> NoError,
     seen |-> <<>>, evals |-> 0]

\* EventEmitter.prototype.off: removes the listener if it is attached.
off(listeners, id) == SelectSeq(listeners, LAMBDA x : x # id)

\* Variant of the listener closure that stops listening after the first
\* message, matching or not (once for on).
LegacyListener_once(lg, id, msg) ==
    LET w == lg.waits[id]
        evaluated == [lg EXCEPT !.waits[id].evals = @ + 1,
                                !.listeners = off(@, id)]
    IN IF Condition(w.predicate, msg)
       THEN [evaluated EXCEPT
                !.waits[id].timer = IF @ = "pending" THEN "cleared" ELSE @,
                !.waits[id].promise =
                    IF @ = "pending" THEN "fulfilled" ELSE @,
                !.waits[id].value =
                    IF w.promise = "pending" THEN <<msg>> ELSE @]
       ELSE evaluated

\* The listener closure of the legacy waitFor, called with a frame: it decodes
\* the frame itself; on a match clearTimeout(timer), this.ws.off('message',
\* listener), resolve(msg).
LegacyListener(lg, id, msg) ==
    LET w == lg.waits[id]
        evaluated == [lg EXCEPT !.waits[id].evals = @ + 1]
    IN IF Condition(w.predicate, msg)
       THEN [evaluated EXCEPT
                !.waits[id].timer = IF @ = "pending" THEN "cleared" ELSE @,
                !.listeners = off(@, id),
                !.waits[id].promise =
                    IF @ = "pending" THEN "fulfilled" ELSE @,
                !.waits[id].value =
                    IF w.promise = "pending" THEN <<msg>> ELSE @]
       ELSE evaluated

\* EventEmitter.prototype.emit('message', data): the listeners attached when
\* the event is emitted are called in the order they were attached; emit
\* works on a copy of the list, so a listener detached meanwhile by another
\* one is still called.
RECURSIVE emit(_, _, _, _)
emit(lg, snapshot, i, data) ==
    IF i > Len(snapshot)
    THEN lg
    ELSE emit(LegacyListener(lg, snapshot[i], JSONparse(data)),
              snapshot, i + 1, data)

\* The timer callback of the legacy waitFor: reject(new Error(...)), and
\* nothing else.
LegacyTimer(lg, id) ==
    LET w == lg.waits[id] IN
    [lg EXCEPT
        !.waits[id].timer = "fired",
        !.waits[id].promise = IF @ = "pending" THEN "rejected" ELSE @,
        !.waits[id].error =
            IF w.promise = "pending" THEN WaitTimeoutError(w.timeout) ELSE @]

\* History: a frame is recorded with every wait whose timer is still pending
\* when it arrives (it arrived after the call and before the timer fired).
LegacyArrived(lg, msg) ==
    LET arrived ==
            [id \in 1..Len(lg.waits) |->
                IF lg.waits[id].timer = "pending"
                THEN [lg.waits[id] EXCEPT !.seen = Append(@, msg)]
                ELSE lg.waits[id]]
    IN [lg EXCEPT !.waits = SubSeq(arrived, 1, Len(lg.waits))]

\* waitFor(predicate, timeout) of the legacy client.
LegacyWaitFor(predicate, timeout) ==
    /\ Len(legacy.waits) < MaxCalls
    /\ legacy' = [legacy EXCEPT
            !.waits = Append(@, LegacyNewWait(predicate, timeout)),
            !.listeners = Append(@, Len(legacy.waits) + 1)]
    /\ UNCHANGED <<sockets, ws, connects, messageHandlers, calls, received,
                   peer>>

\* The socket of the legacy client receives a frame.
LegacyOnMessage(data) ==
    /\ legacy.received < MaxFrames
    /\ legacy' =
        [emit(LegacyArrived(legacy, JSONparse(data)), legacy.listeners, 1,
              data)
         EXCEPT !.received = @ + 1]
    /\ UNCHANGED <<sockets, ws, connects, messageHandlers, calls, received,
                   peer>>

\* The timer of legacy wait id fires.
LegacyWaitTimer(id) ==
    /\ legacy.waits[id].timer = "pending"
    /\ legacy' = LegacyTimer(legacy, id)
    /\ UNCHANGED <<sockets, ws, connects, messageHandlers, calls, received,
                   peer>>

\* The legacy client in a test of the legacy suite: single-message waits on
\* the ticker channel, as its unsubscribe tests issue them, with either
\* timeout; ticker and heartbeat frames; timers.
LegacyNext ==
    \/ \E timeout \in LegacyTimeouts : LegacyWaitFor("isTicker", timeout)
    \/ \E data \in {TickerFrame, OhlcFrame, HeartbeatFrame} :
            LegacyOnMessage(data)
    \/ \E id \in 1..Len(legacy.waits) : LegacyWaitTimer(id)

\* The registries of the two instances.
Registries == <<messageHandlers, peer.messageHandlers>>

\* Variant in which messageHandlers is a static field: one Set for the class,
\* shared by every instance.
thisMessageHandlers_static(instance) == 1

\* this.messageHandlers of an instance: the Set created by the field
\* initialiser when that instance was constructed.
thisMessageHandlers(instance) == instance

\* waitFor(condition, count, timeout) called on the second instance.
PeerWaitFor(condition, count) ==
    /\ Len(calls) < MaxCalls
    /\ calls' = Append(calls, NewCall("waitFor", condition, count))
    /\ LET k == thisMessageHandlers(2)
           hs == SetAdd(Registries[k], Len(calls) + 1)
       IN /\ messageHandlers' = IF k = 1 THEN hs ELSE messageHandlers
          /\ peer' = [peer EXCEPT
                !.messageHandlers = IF k = 2 THEN hs ELSE @]
    /\ UNCHANGED <<sockets, ws, connects, received, legacy>>

\* ws.on('message') of the socket of the second instance.
PeerOnMessage(data) ==
    /\ received + peer.received < MaxFrames
    /\ LET k == thisMessageHandlers(2)
           msg == JSONparse(data)
           st == forEach(WaitState(Dispatched(calls, Registries[k], msg),
                                   Registries[k]), 1, msg)
       IN /\ calls' = st.calls
          /\ messageHandlers' =
                IF k = 1 THEN st.messageHandlers ELSE messageHandlers
          /\ peer' = [messageHandlers |->
                        IF k = 2 THEN st.messageHandlers
                        ELSE peer.messageHandlers,
                      received |-> peer.received + 1]
    /\ UNCHANGED <<sockets, ws, connects, received, legacy>>

\* The timer of wait call id, issued on the second instance, fires.
PeerWaitTimer(id) ==
    /\ calls[id].timer = "pending"
    /\ LET k == thisMessageHandlers(2)
           st == IF calls[id].kind = "waitFor"
                 THEN waitForTimer(WaitState(calls, Registries[k]), id)
                 ELSE waitForSilenceTimer(WaitState(calls, Registries[k]), id)
       IN /\ \E i \in 1..Len(Registries[k]) : Registries[k][i] = id
          /\ calls' = st.calls
          /\ messageHandlers' =
                IF k = 1 THEN st.messageHandlers ELSE messageHandlers
          /\ peer' = [peer EXCEPT
                !.messageHandlers =
                    IF k = 2 THEN st.messageHandlers ELSE @]
    /\ UNCHANGED <<sockets, ws, connects, received, legacy>>

Next ==
    \/ connect
    \/ \E s \in 1..Len(sockets) : OnOpen(s)
    \/ \E s \in 1..Len(sockets) : OnError(s)
    \/ \E s \in 1..Len(sockets) : ConnectTimer(s)
    \/ \E s \in 1..Len(sockets), data \in Frames : OnMessage(s, data)
    \/ \E condition \in Conditions, count \in Counts :
            waitFor(condition, count)
    \/ \E condition \in Conditions : waitForSilence(condition)
    \/ \E id \in 1..Len(calls) : WaitTimer(id)
    \/ close
    \/ \E s \in 1..Len(sockets) : OnClose(s)

Spec == Init /\ [][Next]_vars

\* The connection side of the client alone, from the constructor on: connect
\* calls, what their sockets and timers do, the frames an idle connection
\* receives, close.
ConnectNext ==
    \/ connect
    \/ \E s \in 1..Len(sockets) : OnOpen(s)
    \/ \E s \in 1..Len(sockets) : OnError(s)
    \/ \E s \in 1..Len(sockets) : ConnectTimer(s)
    \/ \E s \in 1..Len(sockets), data \in {StatusFrame, HeartbeatFrame} :
            OnMessage(s, data)
    \/ close
    \/ \E s \in 1..Len(sockets) : OnClose(s)

ConnectSpec == Init /\ [][ConnectNext]_vars

\* The client as test.beforeEach hands it to a scenario: constructed, and
\* connect(5000) awaited, so its one socket is open and the timer of the
\* connect call is cleared.
WaitInit ==
    /\ sockets = <<"OPEN">>
    /\ ws = 1
    /\ connects = <<[timer |-> "cleared", promise |-> "fulfilled",
                     error |-> NoError]>>
    /\ messageHandlers = <<>>
    /\ calls = <<>>
    /\ received = 0
    /\ peer = NewClient
    /\ legacy = NewLegacyClient

\* What a scenario and the server do with a connected client.  The silence
\* wait is tried with the condition of the idle-connection scenario, which
\* overlaps one and is disjoint from the other condition a waitFor may have.
WaitNext ==
    \/ \E s \in 1..Len(sockets), data \in Frames : OnMessage(s, data)
    \/ \E condition \in Conditions, count \in Counts :
            waitFor(condition, count)
    \/ waitForSilence("notIgnored")
    \/ \E id \in 1..Len(calls) : WaitTimer(id)

WaitSpec == WaitInit /\ [][WaitNext]_vars

\* A connected client whose scenario may also close it, and whose server may
\* drop the connection.  Settling does not depend on which condition a call
\* waits for, so one condition is tried, with a frame that satisfies it and
\* one that does not.
LifeNext ==
    \/ \E s \in 1..Len(sockets), data \in {TickerFrame, StatusFrame} :
            OnMessage(s, data)
    \/ \E count \in Counts : waitFor("notIgnored", count)
    \/ waitForSilence("notIgnored")
    \/ \E id \in 1..Len(calls) : WaitTimer(id)
    \/ close
    \/ \E s \in 1..Len(sockets) : OnClose(s)

\* Node fires every pending timer: a timer that stays pending is eventually
\* run.
TimersFire ==
    \A id \in 1..MaxCalls : WF_vars(id <= Len(calls) /\ WaitTimer(id))

FairWaitSpec == WaitInit /\ [][LifeNext]_vars /\ TimersFire

\* The same client and scenario steps with no assumption on when timers fire.
LifeSpec == WaitInit /\ [][LifeNext]_vars

\* Two connected clients in one process, as when a test's client is still
\* around while the next test works with a fresh one: waits, frames and
\* timers on either.  The timer of a call issued on the first instance is
\* the one whose handler that instance registered.
TwoNext ==
    \/ \E s \in 1..Len(sockets), data \in {TickerFrame, StatusFrame} :
            OnMessage(s, data)
    \/ \E count \in Counts : waitFor("notIgnored", count)
    \/ \E id \in 1..Len(calls) :
            /\ \E i \in 1..Len(messageHandlers) : messageHandlers[i] = id
            /\ WaitTimer(id)
    \/ \E data \in {TickerFrame, StatusFrame} : PeerOnMessage(data)
    \/ \E count \in Counts : PeerWaitFor("notIgnored", count)
    \/ \E id \in 1..Len(calls) : PeerWaitTimer(id)

TwoSpec == WaitInit /\ [][TwoNext]_vars

LegacySpec == WaitInit /\ [][LegacyNext]_vars

\* A connected client one of whose callers passes a condition that throws on
\* the messages without a type (the heartbeats), next to callers with total
\* conditions.
ThrowNext ==
    \/ \E s \in 1..Len(sockets), data \in {HeartbeatFrame, TickerFrame} :
            OnMessage(s, data)
    \/ \E condition \in ThrowingConditions \cup {"isHeartbeat"} :
            waitFor(condition, 1)
    \/ waitForSilence("isHeartbeat")
    \/ \E id \in 1..Len(calls) : WaitTimer(id)

ThrowSpec == WaitInit /\ [][ThrowNext]_vars

\* A connected client one of whose callers passes a condition that issues a
\* wait while it is evaluated, next to plain waits for the ticker channel.
\* A call is issued only while the waits still to be issued by the
\* registered re-entrant conditions leave room for it.
Reentering ==
    Cardinality({i \in 1..Len(messageHandlers) :
        calls[messageHandlers[i]].condition \in ReentrantConditions})

ReentrantNext ==
    \/ \E s \in 1..Len(sockets), data \in {TickerFrame, HeartbeatFrame} :
            /\ Len(calls) + Reentering <= MaxCalls
            /\ OnMessage(s, data)
    \/ \E condition \in ReentrantConditions :
            /\ Len(calls) + Reentering + 2 <= MaxCalls
            /\ waitFor(condition, 1)
    \/ \E count \in Counts :
            /\ Len(calls) + Reentering + 1 <= MaxCalls
            /\ waitFor("isTicker", count)
    \/ /\ Len(calls) + Reentering + 1 <= MaxCalls
       /\ waitForSilence("isTicker")
    \/ \E id \in 1..Len(calls) : WaitTimer(id)

ReentrantSpec == WaitInit /\ [][ReentrantNext]_vars

\* A scenario that starts the two primitives side by side, in either order,
\*   Promise.all([client.waitFor(P, 1, T), client.waitForSilence(P, T)])
\* Both calls run to their messageHandlers.add in the same turn of the event
\* loop, so no message is dispatched between them.
WaitBoth(condition, first) ==
    /\ Len(calls) + 2 <= MaxCalls
    /\ LET one == IF first = "waitFor"
                  THEN NewCall("waitFor", condition, 1)
                  ELSE NewCall("waitForSilence", condition, 0)
           two == IF first = "waitFor"
                  THEN NewCall("waitForSilence", condition, 0)
                  ELSE NewCall("waitFor", condition, 1)
       IN /\ calls' = Append(Append(calls, one), two)
          /\ messageHandlers' =
                SetAdd(SetAdd(messageHandlers, Len(calls) + 1),
                       Len(calls) + 2)
    /\ UNCHANGED <<sockets, ws, connects, received, peer, legacy>>

\* The callback of the timer of call id, if that timer is still pending.
expire(st, id) ==
    IF st.calls[id].timer # "pending"
    THEN st
    ELSE IF st.calls[id].kind = "waitFor"
         THEN waitForTimer(st, id)
         ELSE waitForSilenceTimer(st, id)

\* Two timers set in the same turn with the same timeout expire together:
\* Node runs their callbacks in the order they were set, in one pass over
\* its timer list, and no 'message' event comes between them.
WindowEnds(a) ==
    /\ a + 1 <= Len(calls)
    /\ calls[a].timer = "pending" \/ calls[a + 1].timer = "pending"
    /\ LET st == expire(expire(WaitState(calls, messageHandlers), a), a + 1)
       IN /\ calls' = st.calls
          /\ messageHandlers' = st.messageHandlers
    /\ UNCHANGED <<sockets, ws, connects, received, peer, legacy>>

DualNext ==
    \/ \E condition \in Conditions \cup {"isTicker"},
          first \in {"waitFor", "waitForSilence"} :
            WaitBoth(condition, first)
    \/ \E s \in 1..Len(sockets), data \in Frames : OnMessage(s, data)
    \/ \E k \in 1..MaxCalls : WindowEnds(2 * k - 1)

DualSpec == WaitInit /\ [][DualNext]_vars

\* The idle-connection scenario: the client test.beforeEach connected is
\* connected again by the test, which then waits for silence; the server
\* sends status and heartbeat frames, or data, on the connections it has;
\* test.afterEach closes the client.
ReconnectNext ==
    \/ connect
    \/ \E s \in 1..Len(sockets) : OnOpen(s)
    \/ \E s \in 1..Len(sockets),
          data \in {StatusFrame, HeartbeatFrame, TickerFrame} :
            OnMessage(s, data)
    \/ waitForSilence("notIgnored")
    \/ \E id \in 1..Len(calls) : WaitTimer(id)
    \/ close

ReconnectSpec == WaitInit /\ [][ReconnectNext]_vars

\* The life of a client in the suite, from the constructor to the end of
\* test.afterEach: connect() calls (none while a socket is closing, that is
\* after close() took effect), what their sockets and timers do, the frames
\* an idle connection receives, close().  A closing handshake that was
\* started completes; nothing promises that the server drops a connection
\* the client keeps open.
CloseNext ==
    \/ /\ \A s \in 1..Len(sockets) : sockets[s] # "CLOSING"
       /\ connect
    \/ \E s \in 1..Len(sockets) : OnOpen(s)
    \/ \E s \in 1..Len(sockets) : OnError(s)
    \/ \E s \in 1..Len(sockets) : ConnectTimer(s)
    \/ \E s \in 1..Len(sockets), data \in {StatusFrame, HeartbeatFrame} :
            OnMessage(s, data)
    \/ close
    \/ \E s \in 1..Len(sockets) : sockets[s] = "CLOSING" /\ OnClose(s)

HandshakesComplete ==
    \A s \in 1..MaxConnects :
        WF_vars(s <= Len(sockets) /\ sockets[s] = "CLOSING" /\ OnClose(s))

FairCloseSpec == Init /\ [][CloseNext]_vars /\ HandshakesComplete

\* A caller that passes count = 0 to waitFor, next to one that leaves the
\* default; frames the condition accepts and frames it ignores; timers.
ZeroNext ==
    \/ \E s \in 1..Len(sockets),
          data \in {TickerFrame, OhlcFrame, StatusFrame} :
            OnMessage(s, data)
    \/ \E count \in {0, 1} : waitFor("notIgnored", count)
    \/ \E id \in 1..Len(calls) : WaitTimer(id)

ZeroSpec == WaitInit /\ [][ZeroNext]_vars

\* The multi-market scenario after the subscription is acknowledged: waits
\* with the recording condition, ticker updates of either market and
\* heartbeats in any order, timers.
SymbolNext ==
    \/ \E s \in 1..Len(sockets),
          data \in {TickerBTCFrame, TickerETHFrame, HeartbeatFrame} :
            OnMessage(s, data)
    \/ waitFor("everySymbol", 1)
    \/ \E id \in 1..Len(calls) : WaitTimer(id)

SymbolSpec == WaitInit /\ [][SymbolNext]_vars

\* Scenarios that depend on what the server answers.  What the server sends,
\* and when, is up to the server.
\*
\* The unsubscribe scenario from its second step on (the client is subscribed
\* to the ticker channel and data has been received): it sends unsubscribe
\* and waits for the acknowledgment; once that wait is resolved it starts the
\* silence window.
SendUnsubscribe ==
    /\ Len(calls) = 0
    /\ waitFor("isUnsubscribeAck", 1)

StartSilenceWindow ==
    /\ Len(calls) = 1
    /\ calls[1].condition = "isUnsubscribeAck"
    /\ calls[1].promise = "fulfilled"
    /\ waitForSilence("isTicker")

\* The duplicate-subscription scenario: it sends a subscribe request with
\* req_id 50 and waits for its successful acknowledgment; once that wait is
\* resolved it sends the same request again and waits for any message with
\* that req_id.
SendSubscribe ==
    /\ Len(calls) = 0
    /\ waitFor("isReq50Success", 1)

SendSubscribeAgain ==
    /\ Len(calls) = 1
    /\ calls[1].condition = "isReq50Success"
    /\ calls[1].promise = "fulfilled"
    /\ waitFor("isReq50", 1)

ServerFrames ==
    {TickerFrame, HeartbeatFrame, UnsubscribeAckFrame, SubscribeAckFrame,
     AlreadySubscribedFrame}

ScenarioNext ==
    \/ SendUnsubscribe
    \/ StartSilenceWindow
    \/ SendSubscribe
    \/ SendSubscribeAgain
    \/ \E s \in 1..Len(sockets), data \in ServerFrames : OnMessage(s, data)
    \/ \E id \in 1..Len(calls) : WaitTimer(id)

ScenarioSpec == WaitInit /\ [][ScenarioNext]_vars

\* -------------------------------------------------------- auxiliary notions
CallIds == 1..Len(calls)

\* The handler of call id is in the registry hs.
RegisteredIn(hs, id) == \E i \in 1..Len(hs) : hs[i] = id

Registered(id) == RegisteredIn(messageHandlers, id)

\* The messages satisfying the condition of call c among those dispatched
\* while its handler was registered, in dispatch order.
Matching(c) == SelectSeq(c.seen, LAMBDA m : Condition(c.condition, m))

\* The first n elements of seq (all of them if there are fewer).
FirstN(seq, n) == SubSeq(seq, 1, IF n < Len(seq) THEN n ELSE Len(seq))

IsWaitFor(id) == calls[id].kind = "waitFor"

IsSilence(id) == calls[id].kind = "waitForSilence"

\* ----------------------------------------------------------------- claims
\* C1: a waitFor call has at most one terminal outcome.  resolve and reject
\* are called at most once in total; after a resolution by match the timer is
\* cleared (it can no longer fire), and after the timer fired the handler is
\* out of the registry (it can no longer match).
C1_AtMostOneOutcome ==
    \A id \in CallIds : IsWaitFor(id) =>
        LET c == calls[id] IN
        /\ c.resolveCalls + c.rejectCalls <= 1
        /\ c.resolveCalls = 1 =>
                c.promise = "fulfilled" /\ c.timer = "cleared" /\ ~Registered(id)
        /\ c.rejectCalls = 1 =>
                c.promise = "rejected" /\ c.timer = "fired" /\ ~Registered(id)
        /\ c.resolveCalls + c.rejectCalls = 0 =>
                c.promise = "pending" /\ c.timer = "pending" /\ Registered(id)

\* One waitFor call resolved by match and another rejected by its timer.
C1_Witness ==
    \E a, b \in CallIds :
        /\ IsWaitFor(a) /\ calls[a].promise = "fulfilled"
        /\ IsWaitFor(b) /\ calls[b].promise = "rejected"
        /\ calls[b].results # <<>>

\* C2: when at least N >= 1 messages satisfying the condition were dispatched
\* while waitFor(condition, N) was registered, the call is resolved and its
\* result is exactly the first N of them in dispatch order; a resolved call's
\* result keeps exactly N elements.
C2_FirstNInOrder ==
    \A id \in CallIds : (IsWaitFor(id) /\ calls[id].count >= 1) =>
        LET c == calls[id] IN
        /\ Len(Matching(c)) >= c.count =>
                /\ c.promise = "fulfilled"
                /\ c.results = FirstN(Matching(c), c.count)
        /\ c.promise = "fulfilled" =>
                /\ Len(c.results) = c.count
                /\ c.results = FirstN(Matching(c), c.count)

\* A call with count 2 resolved with two different messages.
C2_Witness ==
    \E id \in CallIds :
        /\ IsWaitFor(id) /\ calls[id].count = 2
        /\ calls[id].promise = "fulfilled"
        /\ calls[id].results[1] # calls[id].results[2]

\* C3: when the timer of waitFor(condition, N) has fired, the call is rejected
\* with the timeout error reporting k/N, k being the number of matching
\* messages dispatched while it was registered, and its handler is out of the
\* registry.
C3_TimeoutReportsPartialCount ==
    \A id \in CallIds : (IsWaitFor(id) /\ calls[id].timer = "fired") =>
        LET c == calls[id]
            k == Len(Matching(c))
        IN /\ k < c.count
           /\ c.promise = "rejected"
           /\ c.error.message =
                "Timeout: Only received " \o ToString(k) \o "/"
                    \o ToString(c.count) \o " messages"
           /\ ~Registered(id)

\* A call with count 2 timed out after one match: it reports 1/2.
C3_Witness ==
    \E id \in CallIds :
        /\ IsWaitFor(id) /\ calls[id].timer = "fired"
        /\ calls[id].error.message = "Timeout: Only received 1/2 messages"

\* C4: when the window timer of waitForSilence has fired and no message
\* satisfying the condition was dispatched while it was registered, the call
\* is resolved and its handler is out of the registry.
C4_SilenceResolvesAtWindowEnd ==
    \A id \in CallIds :
        (IsSilence(id) /\ calls[id].timer = "fired"
            /\ Matching(calls[id]) = <<>>) =>
        /\ calls[id].promise = "fulfilled"
        /\ calls[id].rejectCalls = 0
        /\ ~Registered(id)

\* A silence wait resolved by its timer although messages were dispatched to
\* it (none matched).
C4_Witness ==
    \E id \in CallIds :
        /\ IsSilence(id) /\ calls[id].timer = "fired"
        /\ calls[id].promise = "fulfilled"
        /\ calls[id].seen # <<>>

\* C5: once a message satisfying the condition has been dispatched to a
\* registered waitForSilence, the call is rejected, its handler is out of the
\* registry and its timer is cleared, so the timer never resolves it; the
\* matching message is the last one dispatched to it.
C5_SilenceRejectsOnFirstMatch ==
    \A id \in CallIds : (IsSilence(id) /\ Matching(calls[id]) # <<>>) =>
        LET c == calls[id] IN
        /\ c.promise = "rejected"
        /\ c.resolveCalls = 0
        /\ c.timer = "cleared"
        /\ ~Registered(id)
        /\ Len(Matching(c)) = 1
        /\ Condition(c.condition, c.seen[Len(c.seen)])

\* A silence wait rejected by the second message dispatched to it.
C5_Witness ==
    \E id \in CallIds :
        /\ IsSilence(id) /\ calls[id].promise = "rejected"
        /\ Len(calls[id].seen) = 2

\* C6 (as claimed): the failure of a waitForSilence call rejected by a
\* matching message carries that message.
C6_ErrorCarriesOffendingMessage ==
    \A id \in CallIds : (IsSilence(id) /\ calls[id].promise = "rejected") =>
        LET c == calls[id] IN
        \E i \in 1..Len(c.error.carries) :
            c.error.carries[i] = c.seen[Len(c.seen)]

\* C6 (amended): the failure of a waitForSilence call rejected by a matching
\* message is an Error with the fixed text 'Message received during silence
\* window'; it carries no message.
C6_ErrorIsFixedText ==
    \A id \in CallIds : (IsSilence(id) /\ calls[id].promise = "rejected") =>
        /\ calls[id].error.message = "Message received during silence window"
        /\ calls[id].error.carries = <<>>

\* A silence wait rejected by a matching message.
C6_Witness ==
    \E id \in CallIds :
        /\ IsSilence(id) /\ calls[id].promise = "rejected"
        /\ Condition(calls[id].condition, calls[id].seen[Len(calls[id].seen)])

\* No message satisfies both conditions.
Disjoint(c1, c2) ==
    \A m \in Messages : ~(Condition(c1, m) /\ Condition(c2, m))

\* C7: no cross-talk.  For two outstanding waitFor calls with disjoint
\* conditions, after the dispatch of any message m (the step that receives a
\* frame; m is the last message of seen) each accumulator holds only
\* messages satisfying its own condition; a message satisfying neither
\* condition leaves both accumulators, both promises and both registrations
\* as they were, and a message satisfying one leaves the other call alone.
C7_NoCrossTalk ==
    [][received' = received + 1 =>
        \A a, b \in CallIds :
            (/\ a # b /\ IsWaitFor(a) /\ IsWaitFor(b)
             /\ Registered(a) /\ Registered(b)
             /\ Disjoint(calls[a].condition, calls[b].condition)) =>
            LET m == calls'[a].seen[Len(calls'[a].seen)]
                Untouched(x) ==
                    /\ calls'[x].results = calls[x].results
                    /\ calls'[x].promise = calls[x].promise
                    /\ calls'[x].timer = calls[x].timer
                    /\ RegisteredIn(messageHandlers', x)
            IN /\ \A x \in {a, b} : \A i \in 1..Len(calls'[x].results) :
                    Condition(calls[x].condition, calls'[x].results[i])
               /\ ~Condition(calls[a].condition, m) => Untouched(a)
               /\ ~Condition(calls[b].condition, m) => Untouched(b)
      ]_vars

\* Two outstanding waitFor calls with disjoint conditions, the first with a
\* message of its own accumulated, and both last dispatched a message that
\* satisfies neither condition.
C7_Witness ==
    \E a, b \in CallIds :
        /\ a # b /\ IsWaitFor(a) /\ IsWaitFor(b)
        /\ Registered(a) /\ Registered(b)
        /\ Disjoint(calls[a].condition, calls[b].condition)
        /\ calls[a].results # <<>>
        /\ calls[b].seen # <<>>
        /\ LET m == calls[b].seen[Len(calls[b].seen)]
           IN /\ ~Condition(calls[a].condition, m)
              /\ ~Condition(calls[b].condition, m)

\* C8: fan-out.  The dispatch of a message (the step that receives a frame)
\* reaches every handler registered when it starts: each registered waitFor
\* whose condition the message satisfies appends it to its results, each
\* registered waitForSilence whose condition it satisfies is rejected,
\* whatever the other handlers did with it; a call whose condition it does
\* not satisfy is left alone.
C8_FanOut ==
    [][received' = received + 1 =>
        \A id \in CallIds : Registered(id) =>
            LET m == calls'[id].seen[Len(calls'[id].seen)] IN
            IF Condition(calls[id].condition, m)
            THEN /\ IsWaitFor(id) =>
                        calls'[id].results = Append(calls[id].results, m)
                 /\ IsSilence(id) => calls'[id].promise = "rejected"
            ELSE /\ calls'[id].results = calls[id].results
                 /\ calls'[id].promise = calls[id].promise
      ]_vars

\* One single message was received; a waitFor accumulated it and a
\* waitForSilence was failed by it.
C8_Witness ==
    /\ received = 1
    /\ \E a, b \in CallIds :
        /\ IsWaitFor(a) /\ calls[a].results # <<>>
        /\ IsSilence(b) /\ calls[b].promise = "rejected"

\* C9: every waitFor and waitForSilence call eventually settles (timers
\* eventually fire), also when the connection is closed meanwhile; it is
\* settled by the time its own timer has fired, and resolve / reject have been
\* called exactly once for a settled call and never for a pending one.
C9_EveryCallSettlesOnce ==
    /\ \A id \in 1..MaxCalls :
            [](id <= Len(calls) =>
                <>(id <= Len(calls) /\ calls[id].promise # "pending"))
    /\ [](\A id \in CallIds :
            LET c == calls[id] IN
            /\ c.timer = "fired" => c.promise # "pending"
            /\ c.promise # "pending" => c.resolveCalls + c.rejectCalls = 1
            /\ c.promise = "pending" => c.resolveCalls + c.rejectCalls = 0)

\* The connection is closed without a single frame received, and a call has
\* been settled by its timer.
C9_Witness ==
    /\ sockets[ws] = "CLOSED"
    /\ received = 0
    /\ \E id \in CallIds :
            calls[id].timer = "fired" /\ calls[id].promise # "pending"

\* The outcome a call has by its own history alone: its kind, condition and
\* count, the messages dispatched while it was registered, and its own timer.
OwnOutcome(c) ==
    IF c.kind = "waitFor"
    THEN IF c.count >= 1 /\ Len(Matching(c)) >= c.count THEN "fulfilled"
         ELSE IF c.timer = "fired" THEN "rejected"
         ELSE "pending"
    ELSE IF Matching(c) # <<>> THEN "rejected"
         ELSE IF c.timer = "fired" THEN "fulfilled"
         ELSE "pending"

\* C10: the step in which the timer of one call fires leaves every other call
\* as it was (accumulator, timer, promise) and the registry without that
\* call's handler only, the others in their order; and the outcome of every
\* call is the one its own history gives, whatever other calls were issued
\* or timed out.
C10_TimeoutLeavesOthersAlone ==
    [][/\ \A id \in CallIds :
            (calls[id].timer = "pending" /\ calls'[id].timer = "fired") =>
            /\ \A o \in CallIds \ {id} : calls'[o] = calls[o]
            /\ messageHandlers' =
                    SelectSeq(messageHandlers, LAMBDA x : x # id)
       /\ \A o \in 1..Len(calls') :
            calls'[o].promise = OwnOutcome(calls'[o])
      ]_vars

\* One call timed out; another is still registered with its timer pending
\* and a message accumulated.
C10_Witness ==
    \E a, b \in CallIds :
        /\ a # b
        /\ calls[a].timer = "fired"
        /\ Registered(b) /\ calls[b].timer = "pending"
        /\ calls[b].results # <<>>

\* C11 (as claimed): a condition that throws while a message is dispatched
\* does not escape the delivery loop.  In the dispatch of a message (the step
\* that receives a frame) every registered handler whose own condition does
\* not throw on it is served as if no condition had thrown (a waitFor whose
\* condition it satisfies appends it, a waitForSilence whose condition it
\* satisfies is rejected), and the registry keeps exactly the handlers of
\* the calls still pending.
C11_ThrowDoesNotEscape ==
    [][received' = received + 1 =>
        /\ \A id \in CallIds : Registered(id) =>
            LET m == calls'[id].seen[Len(calls'[id].seen)] IN
            (~Throws(calls[id].condition, m)
                /\ Condition(calls[id].condition, m)) =>
            /\ IsWaitFor(id) =>
                    calls'[id].results = Append(calls[id].results, m)
            /\ IsSilence(id) => calls'[id].promise = "rejected"
        /\ \A id \in CallIds :
            RegisteredIn(messageHandlers', id) <=>
                calls'[id].promise = "pending"
      ]_vars

\* C12: in every reachable state the registry holds exactly the handlers of
\* the calls that have not settled, each once: a call is registered from the
\* moment it is issued until it settles, and none stays registered after it
\* settled, by match or by timer.
C12_RegistryIsThePendingCalls ==
    /\ \A id \in CallIds : Registered(id) <=> calls[id].promise = "pending"
    /\ \A i \in 1..Len(messageHandlers) : messageHandlers[i] \in CallIds
    /\ \A i, j \in 1..Len(messageHandlers) :
            messageHandlers[i] = messageHandlers[j] => i = j

\* The call issued first was settled by a match while a later one was
\* registered, and that one is still pending and alone in the registry.
C12_Witness ==
    /\ Len(calls) = 2
    /\ calls[1].promise # "pending" /\ calls[1].timer = "cleared"
    /\ calls[2].seen # <<>> /\ calls[2].promise = "pending"
    /\ messageHandlers = <<2>>

\* C13: no message is delivered to a settled call.  Once the promise of a
\* call is resolved or rejected no step changes anything of the call: its
\* condition is not evaluated again, its results stay as they are, no
\* message is dispatched to it.  Within one delivery a condition is
\* evaluated at most once, and the delivery that settles a call evaluates
\* its condition exactly once, whatever the handlers after it do with the
\* same message.
C13_SettledCallIsLeftAlone ==
    [][\A id \in CallIds :
        /\ calls[id].promise # "pending" => calls'[id] = calls[id]
        /\ calls'[id].evals \in {calls[id].evals, calls[id].evals + 1}
        /\ (calls[id].promise = "pending" /\ calls'[id].promise # "pending"
                /\ received' = received + 1) =>
            /\ calls'[id].evals = calls[id].evals + 1
            /\ Len(calls'[id].results) <= Len(calls[id].results) + 1
      ]_vars

\* The first call was settled by the first message; the second call, then
\* already registered after it, went on and took a second message, which the
\* first call was not given.
C13_Witness ==
    /\ Len(calls) = 2
    /\ calls[1].promise = "fulfilled" /\ calls[1].evals = 1
    /\ calls[2].evals = 2 /\ calls[2].seen[1] = calls[1].results[1]
    /\ received = 2

\* C14: cleanup is idempotent.  In every reachable state and for every call,
\* running its cleanup twice gives the state running it once gives, and for
\* a call whose cleanup has already run (it is settled, by match or by
\* timer) one more cleanup changes nothing: the registry, the other calls,
\* and the call's own timer, results and promise stay as they are.
C14_CleanupIdempotent ==
    LET st == WaitState(calls, messageHandlers) IN
    \A id \in CallIds :
        /\ cleanup(cleanup(st, id), id) = cleanup(st, id)
        /\ calls[id].promise # "pending" => cleanup(st, id) = st

\* Cleanup has run for a call settled by a match, while another call is
\* registered with a message accumulated (a second cleanup of the first must
\* not touch it).
C14_Witness ==
    \E a, b \in CallIds :
        /\ calls[a].promise # "pending" /\ calls[a].timer = "cleared"
        /\ Registered(b) /\ calls[b].results # <<>>

\* The subscribed symbols among the ticker updates dispatched to call c.
SeenSymbols(c) ==
    {FirstSymbol(c.seen[i]) : i \in {j \in 1..Len(c.seen) :
        /\ c.seen[j].channel = "ticker" /\ c.seen[j].type = "update"
        /\ \E k \in 1..Len(symbols) : symbols[k] = FirstSymbol(c.seen[j])}}

AllSymbols == {symbols[k] : k \in 1..Len(symbols)}

\* C15: multi-market scenario.  A waitFor with count 1 and the recording
\* condition is resolved if and only if a ticker update of every subscribed
\* symbol was dispatched to it (while it was registered, so before its
\* timer), in whatever order; the recorded Set is always the set of
\* subscribed symbols seen so far, so it holds every subscribed symbol when
\* the call is resolved; the call is resolved with the one update that
\* completed the Set; a call whose timer fired is rejected and lacks a
\* symbol.
C15_ResolvesWhenEverySymbolSeen ==
    \A id \in CallIds : calls[id].condition = "everySymbol" =>
        LET c == calls[id] IN
        /\ c.receivedSymbols = SeenSymbols(c)
        /\ c.promise = "fulfilled" <=> SeenSymbols(c) = AllSymbols
        /\ c.promise = "fulfilled" =>
                /\ c.receivedSymbols = AllSymbols
                /\ c.results = <<c.seen[Len(c.seen)]>>
                /\ c.timer = "cleared"
        /\ c.timer = "fired" =>
                c.promise = "rejected" /\ SeenSymbols(c) # AllSymbols

\* A call resolved by the updates in the order ETH/USD, BTC/USD, next to a
\* call issued between the two, which has seen BTC/USD only and is pending.
C15_Witness ==
    \E a, b \in CallIds :
        /\ calls[a].promise = "fulfilled"
        /\ FirstSymbol(calls[a].seen[1]) = "ETH/USD"
        /\ FirstSymbol(calls[a].results[1]) = "BTC/USD"
        /\ calls[b].promise = "pending"
        /\ calls[b].receivedSymbols = {"BTC/USD"}

\* C16 (as claimed): unsubscribe scenario.  The silence wait on the ticker
\* channel started after the acknowledgment of the unsubscribe succeeds: no
\* ticker message is delivered to it, it is never rejected, and it is
\* resolved when its window ends.
C16_SilenceAfterUnsubscribeSucceeds ==
    \A id \in CallIds :
        (IsSilence(id) /\ calls[id].condition = "isTicker") =>
        /\ Matching(calls[id]) = <<>>
        /\ calls[id].promise # "rejected"
        /\ calls[id].timer = "fired" => calls[id].promise = "fulfilled"

\* String.prototype.toLowerCase, on a string kept as its characters.
toLowerCase(str) ==
    [i \in 1..Len(str) |->
        CASE str[i] = "A" -> "a"
          [] str[i] = "S" -> "s"
          [] OTHER -> str[i]]

\* String.prototype.includes.
includes(str, sub) ==
    \E i \in 0..(Len(str) - Len(sub)) :
        SubSeq(str, i + 1, i + Len(sub)) = sub

\* C17 (as claimed): duplicate-subscription scenario.  The wait issued after
\* the second send resolves with the first message carrying the req_id that
\* is dispatched after that send, i.e. the answer to the second request, and
\* that answer has success = false and an error text containing 'already',
\* whatever its case.
C17_SecondSubscribeIsRefused ==
    \A id \in CallIds :
        (calls[id].condition = "isReq50" /\ calls[id].promise = "fulfilled") =>
        LET second == calls[id].results[1] IN
        /\ calls[id].results = FirstN(Matching(calls[id]), 1)
        /\ second.success = FALSE
        /\ "error" \in DOMAIN second
        /\ includes(toLowerCase(second.error),
                    <<"a", "l", "r", "e", "a", "d", "y">>)

\* C18 (as claimed): a connect call settles at most once (a settled promise
\* keeps its outcome); it is resolved by the step in which its socket opens
\* while its timer is pending; the step in which its timer fires while the
\* call is pending leaves the socket of the call CLOSED and the call rejected
\* with 'Connection Timeout'; and once the timer of a call has fired the
\* socket of the call is not open, and no open event resolves the call.
C18_ConnectSettlesOnce ==
    [][\A s \in 1..Len(connects) :
        /\ connects[s].promise # "pending" =>
                /\ connects'[s].promise = connects[s].promise
                /\ connects'[s].error = connects[s].error
        /\ (sockets[s] = "CONNECTING" /\ sockets'[s] = "OPEN"
                /\ connects[s].timer = "pending") =>
                connects'[s].promise = "fulfilled"
        /\ (connects[s].timer = "pending" /\ connects'[s].timer = "fired"
                /\ connects[s].promise = "pending") =>
                /\ sockets'[s] = "CLOSED"
                /\ connects'[s].promise = "rejected"
                /\ connects'[s].error.message = "Connection Timeout"
        /\ connects'[s].timer = "fired" =>
                /\ sockets'[s] # "OPEN"
                /\ connects'[s].promise # "fulfilled"
      ]_vars

\* C20 (as claimed): once close() has been called no waiter of the client is
\* delivered a message any more.  Only close() puts a socket in CLOSING, so
\* in a state whose current socket is CLOSING close() has been called: from
\* such a state no step hands a message to a handler, i.e. no call
\* outstanding then has a message dispatched to it, its condition evaluated
\* or its results extended.
C20_NoDeliveryAfterClose ==
    [][(ws # 0 /\ sockets[ws] = "CLOSING") =>
        \A id \in CallIds :
            /\ calls'[id].seen = calls[id].seen
            /\ calls'[id].evals = calls[id].evals
            /\ calls'[id].results = calls[id].results
      ]_vars

\* C19: two instances are independent.  A step of the second instance (a
\* frame received on its connection, a wait issued on it, a timer of one of
\* its calls) leaves the registry of the first and every call registered
\* there as they were, so no frame of the second connection is delivered to
\* a waiter of the first and no wait left outstanding on the second affects
\* the waits of the first; and the same the other way round.  No handler is
\* in both registries.
C19_ClientsAreIndependent ==
    [][/\ peer' # peer =>
            /\ messageHandlers' = messageHandlers
            /\ received' = received
            /\ \A id \in CallIds : Registered(id) => calls'[id] = calls[id]
       /\ (messageHandlers' # messageHandlers \/ received' # received) =>
            /\ peer' = peer
            /\ \A id \in CallIds :
                    RegisteredIn(peer.messageHandlers, id) =>
                        calls'[id] = calls[id]
       /\ \A id \in 1..Len(calls') :
            ~(RegisteredIn(messageHandlers', id)
                /\ RegisteredIn(peer'.messageHandlers, id))
      ]_vars

\* The second instance has a wait outstanding that has seen a frame of its
\* own connection, and a wait of the first instance was resolved by a frame
\* of the first connection.
C19_Witness ==
    /\ received = 1 /\ peer.received = 1
    /\ \E a, b \in CallIds :
        /\ RegisteredIn(peer.messageHandlers, a)
        /\ Len(calls[a].seen) = 1 /\ calls[a].results # <<>>
        /\ calls[b].promise = "fulfilled" /\ Len(calls[b].seen) = 1

\* The messages satisfying the predicate of legacy wait w among those that
\* arrived after the call and before its timer fired or was cleared.
LegacyMatching(w) == SelectSeq(w.seen, LAMBDA m : Condition(w.predicate, m))

\* C21: the legacy waitFor(predicate, timeout) is resolved exactly when a
\* message satisfying the predicate arrived after the call and before its
\* timer fired, and then with the first such message; it is rejected exactly
\* when its timer fired with no such message arrived, and then with the
\* error 'Wait Timeout: Message not received within <timeout>ms'; so for a
\* rejected wait no message that arrived during its window satisfied the
\* predicate, and a later match does not change the outcome.
C21_LegacyWaitOutcome ==
    \A id \in 1..Len(legacy.waits) :
        LET w == legacy.waits[id] IN
        /\ w.promise = "fulfilled" <=> LegacyMatching(w) # <<>>
        /\ w.promise = "fulfilled" =>
                /\ w.value = <<LegacyMatching(w)[1]>>
                /\ w.value = <<w.seen[Len(w.seen)]>>
                /\ w.timer = "cleared"
        /\ w.promise = "rejected" <=>
                (w.timer = "fired" /\ LegacyMatching(w) = <<>>)
        /\ w.promise = "rejected" =>
                w.error.message =
                    "Wait Timeout: Message not received within "
                        \o ToString(w.timeout) \o "ms"

\* A wait resolved by the second frame that arrived for it, and a wait with
\* the silence window as timeout rejected although a matching frame arrived
\* after its timer had fired.
C21_Witness ==
    \E a, b \in 1..Len(legacy.waits) :
        /\ legacy.waits[a].promise = "fulfilled"
        /\ Len(legacy.waits[a].seen) = 2
        /\ legacy.waits[b].promise = "rejected"
        /\ legacy.waits[b].timeout = UNSUB_SILENCE_MS
        /\ legacy.waits[b].evals > Len(legacy.waits[b].seen)

\* C22 (as claimed): the dispatch of a message visits the handlers that were
\* registered when it started and no other.  A handler therefore evaluates
\* its condition only on messages dispatched while it was registered: a
\* call registered during the delivery of a message has not been handed
\* that message, and its results hold only messages dispatched after its
\* registration.
C22_DispatchIteratesSnapshot ==
    \A id \in CallIds :
        /\ calls[id].evals <= Len(calls[id].seen)
        /\ Len(calls[id].results) <= Len(calls[id].seen)

\* C23: a handler that settles its call and removes itself from the registry
\* while a message is dispatched does not disturb the delivery to the
\* others.  Every call has been handed, once each, exactly the messages
\* whose dispatch started while its handler was registered: the number of
\* evaluations of its condition is the number of those messages, whatever
\* the handlers before it in the registry did.
C23_RemovalSkipsNobody ==
    \A id \in CallIds : calls[id].evals = Len(calls[id].seen)

\* Two calls were registered when the one message received so far was
\* dispatched; the earlier one settled on it and removed itself, the later
\* one was handed it once.
C23_Witness ==
    \E a, b \in CallIds :
        /\ a < b
        /\ received = 1
        /\ calls[a].seen # <<>> /\ calls[b].seen = calls[a].seen
        /\ calls[a].timer = "cleared" /\ ~Registered(a)
        /\ calls[b].evals = 1

\* C24: in every reachable state, settled or not, the results of a
\* waitFor(condition, N) call with N >= 1 number between 0 and N, every one
\* of them satisfies the condition, and they are the matching messages
\* dispatched to the call so far, from the first on, in dispatch order.
C24_AccumulatedIsOrderedPrefix ==
    \A id \in CallIds : (IsWaitFor(id) /\ calls[id].count >= 1) =>
        LET c == calls[id] IN
        /\ Len(c.results) \in 0..c.count
        /\ \A k \in 1..Len(c.results) : Condition(c.condition, c.results[k])
        /\ Len(c.results) <= Len(Matching(c))
        /\ c.results = SubSeq(Matching(c), 1, Len(c.results))

\* A call with count 2 is still pending with one result, after a message it
\* does not want and one it wants were dispatched to it.
C24_Witness ==
    \E id \in CallIds :
        /\ IsWaitFor(id) /\ calls[id].count = 2
        /\ calls[id].promise = "pending"
        /\ Len(calls[id].seen) = 2
        /\ Len(calls[id].results) = 1
        /\ calls[id].results[1] = calls[id].seen[2]

\* The calls started side by side: a waitFor and a waitForSilence with the
\* same condition, registered in the same turn.
Duals ==
    {p \in CallIds \X CallIds :
        /\ \/ (p[1] % 2 = 1 /\ p[2] = p[1] + 1)
           \/ (p[2] % 2 = 1 /\ p[1] = p[2] + 1)
        /\ IsWaitFor(p[1]) /\ IsSilence(p[2])}

\* C25: waitFor(P, 1, T) and waitForSilence(P, T), started together and so
\* fed the same messages over the same window, are duals.  The waitFor is
\* resolved exactly when the waitForSilence is rejected, and rejected exactly
\* when the waitForSilence is resolved; and they settle on the same event:
\* both on the same message (both timers cleared, the same messages
\* dispatched to both until then, the last of them the result of the waitFor)
\* or both at the end of the window (both timers fired).
C25_CollectAndSilenceAreDuals ==
    \A p \in Duals :
        LET w == calls[p[1]]
            q == calls[p[2]]
        IN
        /\ w.promise = "fulfilled" <=> q.promise = "rejected"
        /\ w.promise = "rejected" <=> q.promise = "fulfilled"
        /\ w.timer = q.timer
        /\ w.seen = q.seen
        /\ w.promise = "fulfilled" =>
                /\ w.timer = "cleared"
                /\ w.results = <<q.seen[Len(q.seen)]>>
        /\ w.promise = "rejected" => w.timer = "fired"

\* The pair settled on the second message dispatched to it, the first one
\* not satisfying the condition.
C25_Witness ==
    \E p \in Duals :
        /\ calls[p[1]].promise = "fulfilled"
        /\ calls[p[2]].promise = "rejected"
        /\ Len(calls[p[2]].seen) = 2
        /\ ~Condition(calls[p[2]].condition, calls[p[2]].seen[1])

\* C26: a message that does not satisfy the condition of a registered
\* waitForSilence call leaves the call as it was: still pending, still
\* registered, with the timer set at registration still pending and no
\* other timer set for it.  The one timer of the call is the end of its
\* window: when it has fired the call is settled, whatever was dispatched
\* in between.
C26_OtherMessagesLeaveTheWindowAlone ==
    [][/\ received' = received + 1 =>
            \A id \in CallIds : (IsSilence(id) /\ Registered(id)) =>
                LET m == calls'[id].seen[Len(calls'[id].seen)] IN
                ~Condition(calls[id].condition, m) =>
                    /\ calls'[id].promise = "pending"
                    /\ calls'[id].timer = "pending"
                    /\ calls'[id].rejectCalls = 0
                    /\ RegisteredIn(messageHandlers', id)
       /\ \A id \in 1..Len(calls') : calls'[id].kind = "waitForSilence" =>
            /\ calls'[id].timersSet = 1
            /\ calls'[id].timer = "fired" => calls'[id].promise # "pending"
      ]_vars

\* A silence wait resolved at the end of its window after two messages it
\* ignores were dispatched to it.
C26_Witness ==
    \E id \in CallIds :
        /\ IsSilence(id) /\ Len(calls[id].seen) = 2
        /\ Matching(calls[id]) = <<>>
        /\ calls[id].timer = "fired" /\ calls[id].promise = "fulfilled"

\* The sockets whose 'message' listener hands the frames it receives to the
\* handlers in this.messageHandlers: the sockets connect() created that are
\* open, or closing and still receiving.
Inbound == {s \in 1..Len(sockets) : sockets[s] \in {"OPEN", "CLOSING"}}

\* C27 (as claimed): at any time the waiters of the client are fed from at
\* most one socket, whatever connect() calls were made on the client.
C27_OneInboundStream == Cardinality(Inbound) <= 1

\* C28: nothing is left behind by a wait.  The timer of a call is pending
\* exactly while the handler of the call is in the registry; so when every
\* call issued so far has settled, the registry is empty and no wait timer
\* is pending.
C28_NoLeak ==
    /\ \A id \in CallIds : calls[id].timer = "pending" <=> Registered(id)
    /\ Len(messageHandlers) <= Len(calls)
    /\ (\A id \in CallIds : calls[id].promise # "pending") =>
            /\ messageHandlers = <<>>
            /\ \A id \in CallIds : calls[id].timer # "pending"

\* Two calls were issued and both have settled, one on a message and one
\* on its timer.
C28_Witness ==
    /\ Len(calls) >= 2
    /\ \A id \in CallIds : calls[id].promise # "pending"
    /\ \E id \in CallIds : calls[id].timer = "cleared"
    /\ \E id \in CallIds : IsWaitFor(id) /\ calls[id].timer = "fired"

\* C29 (as claimed): a wait of the legacy client that has settled, on a
\* match or on its timeout, has no listener attached to the socket any
\* more, so the attached listeners are those of the pending waits and the
\* predicate of a settled wait is not evaluated on the messages that
\* arrive after it settled.
C29_LegacyListenerDetachedOnSettle ==
    \A id \in 1..Len(legacy.waits) :
        legacy.waits[id].promise # "pending" =>
            /\ \A i \in 1..Len(legacy.listeners) : legacy.listeners[i] # id
            /\ legacy.waits[id].evals = Len(legacy.waits[id].seen)

\* C30 (as claimed): the timer of a connect call acts on the socket of that
\* call and on no other, and does nothing once the call has settled.  In the
\* step in which the timer of call s fires every socket created by another
\* call keeps its state, and if call s had already settled (resolved, or
\* rejected by a socket error) no socket changes at all.
C30_ConnectTimerActsOnOwnSocket ==
    [][\A s \in 1..Len(connects) :
        (connects[s].timer = "pending" /\ connects'[s].timer = "fired") =>
            /\ \A t \in 1..Len(sockets) : t # s => sockets'[t] = sockets[t]
            /\ connects[s].promise # "pending" => sockets' = sockets
      ]_vars

\* C31 (as claimed): after close() every socket the client has created
\* eventually reaches CLOSED, however many connect() calls came before.
\* Only close() puts a socket in CLOSING, so in a state whose current socket
\* is CLOSING close() has been called: from such a state on, a state is
\* reached in which every socket of the client is CLOSED.
C31_CloseClosesEverySocket ==
    (ws # 0 /\ sockets[ws] = "CLOSING")
        ~> (\A s \in 1..Len(sockets) : sockets[s] = "CLOSED")

\* C32: nothing is buffered or replayed.  A call starts with no result, its
\* condition never evaluated and its promise pending, whatever was
\* dispatched before it was issued; and the results of a call grow only in
\* the dispatch of a message that starts while its handler is registered,
\* by that message.
C32_NoReplay ==
    [][/\ \A id \in 1..Len(calls') : id > Len(calls) =>
            /\ calls'[id].results = <<>>
            /\ calls'[id].evals = 0
            /\ calls'[id].promise = "pending"
       /\ \A id \in CallIds :
            \/ /\ calls'[id].results = calls[id].results
               /\ calls'[id].evals = calls[id].evals
            \/ /\ received' = received + 1
               /\ Registered(id)
               /\ calls'[id].seen # calls[id].seen
               /\ calls'[id].results \in
                    {calls[id].results,
                     Append(calls[id].results,
                            calls'[id].seen[Len(calls'[id].seen)])}
      ]_vars

\* A sequential scenario: the first wait was resolved by a message, the
\* next wait for the same condition was issued afterwards and has been
\* handed nothing.
C32_Witness ==
    /\ Len(calls) = 2 /\ received >= 1
    /\ IsWaitFor(1) /\ calls[1].promise = "fulfilled"
    /\ IsWaitFor(2) /\ calls[2].condition = calls[1].condition
    /\ calls[2].promise = "pending" /\ Registered(2)
    /\ calls[2].seen = <<>> /\ calls[2].results = <<>>
    /\ calls[2].evals = 0

\* C33: waitFor(condition, 0) is accepted, and no message resolves it.  The
\* call is pending and registered until its timer fires; its results are
\* all the matching messages dispatched to it, however many; it is never
\* resolved; the timer rejects it with the timeout error reporting k/0, k
\* being the number of those messages.
C33_CountZeroOnlyTimesOut ==
    \A id \in CallIds : (IsWaitFor(id) /\ calls[id].count = 0) =>
        LET c == calls[id] IN
        /\ c.promise # "fulfilled" /\ c.resolveCalls = 0
        /\ c.results = Matching(c)
        /\ c.timer \in {"pending", "fired"}
        /\ c.timer = "pending" <=> (c.promise = "pending" /\ Registered(id))
        /\ c.timer = "fired" <=> c.promise = "rejected"
        /\ c.promise = "rejected" =>
                /\ ~Registered(id)
                /\ c.error.message = "Timeout: Only received "
                        \o ToString(Len(Matching(c))) \o "/0 messages"

\* A call with count 0 took two matching messages and was then rejected by
\* its timer.
C33_Witness ==
    \E id \in CallIds :
        /\ IsWaitFor(id) /\ calls[id].count = 0
        /\ Len(calls[id].results) = 2
        /\ calls[id].promise = "rejected"
        /\ calls[id].error.message = "Timeout: Only received 2/0 messages"

=============================================================================
